---- MODULE Spec2Model ----
(***************************************************************************)
(* Model of src/app_dash.py: a Streamlit script that loads the sheet "PAD" *)
(* of an uploaded workbook, derives ANO / MES / MES_ANO from the entry     *)
(* timestamp, filters the frame by the sidebar widgets and shows metrics,  *)
(* frequency counts, time series and a missing-value report.               *)
(*                                                                         *)
(* Streamlit runs the whole script top to bottom on the upload and again   *)
(* on every widget change; one action of the model is one such run.        *)
(*                                                                         *)
(* Representation.                                                         *)
(*   - a frame is [columns |-> sequence of names, rows |-> sequence of     *)
(*     functions from column name to value];                               *)
(*   - a missing value is NaN ("NaN") in a text column, NaT (<<>>) in a    *)
(*     datetime or period column and NaNf (-1) in a numeric column;        *)
(*   - a raw date cell is [kind, val]: "empty", "datetime" (an Excel date  *)
(*     cell, val = <<y, m, d>>) or "text" (val = the numbers written in    *)
(*     the text, <<>> when the text holds no date at all);                 *)
(*   - a float is an exact fraction <<numerator, denominator>>             *)
(*     (taxa_conclusao) or a number of hundredths (missing_percent, which  *)
(*     the code rounds to two places); binary rounding error is not        *)
(*     modelled;                                                           *)
(*   - the time of day of a timestamp is not modelled (nothing reads it).  *)
(***************************************************************************)
EXTENDS Integers, Sequences, FiniteSets, TLC

VARIABLES
    file,                 \* the workbook the user has at hand (never changes)
    uploaded_file,        \* <<>> (None) or <<the uploaded workbook>>
    pc,                   \* where the last run of the script ended
    shown,                \* st.error / st.info messages of the last run
    df,                   \* result of load_data
    ano_selecionado,      \* sidebar selectbox
    tipo_selecionado,     \* sidebar multiselects
    especie_selecionada,
    assunto_selecionado,
    df_filtrado,          \* rows of the filtered frame
    total_processos,
    processos_pendentes,
    processos_com_decisao,
    taxa_conclusao,
    tipo_counts,
    especie_counts,
    assunto_counts,
    decisao_counts,
    df_temporal,
    mes_ano_counts,
    ano_counts,
    missing_data,
    missing_percent

vars == <<file, uploaded_file, pc, shown, df, ano_selecionado, tipo_selecionado,
          especie_selecionada, assunto_selecionado, df_filtrado, total_processos,
          processos_pendentes, processos_com_decisao, taxa_conclusao, tipo_counts,
          especie_counts, assunto_counts, decisao_counts, df_temporal,
          mes_ano_counts, ano_counts, missing_data, missing_percent>>

----------------------------------------------------------------------------
(* Bounds and markers *)

MaxRows == 2

NaN == "NaN"

NaT == <<>>

NaNf == -1

Todos == 0

TopN == 10

ColEntrada == "DATA E HORA DE ENTRADA"

ColData == "DATA DE ENTRADA"

EmptyFrame == [columns |-> <<>>, rows |-> <<>>]

MsgLoad == "Erro ao carregar dados"

MsgEmpty == "Não foi possível carregar os dados. Verifique a planilha ou o formato do arquivo."

MsgWaiting == "Aguardando o upload do arquivo."

MsgTipo == "Nenhum dado de tipo disponível para os filtros selecionados."

MsgEspecie == "Nenhum dado de espécie disponível para os filtros selecionados."

MsgAssunto == "Nenhum dado de assunto disponível para os filtros selecionados."

MsgDecisao == "Nenhum dado de decisão disponível para os filtros selecionados."

MsgTemporal == "Nenhum dado temporal disponível para os filtros selecionados."

----------------------------------------------------------------------------
(* Sequence helpers *)

Range(s) == {s[i] : i \in 1..Len(s)}

Min(a, b) == IF a <= b THEN a ELSE b

Max(a, b) == IF a >= b THEN a ELSE b

RECURSIVE Uniq(_)
Uniq(s) ==
    IF s = <<>> THEN <<>>
    ELSE LET init == Uniq(SubSeq(s, 1, Len(s) - 1))
             x == s[Len(s)]
         IN IF x \in Range(init) THEN init ELSE Append(init, x)

CountOf(s, x) == Cardinality({i \in 1..Len(s) : s[i] = x})

RECURSIVE SumCounts(_)
SumCounts(pairs) ==
    IF pairs = <<>> THEN 0 ELSE pairs[1][2] + SumCounts(Tail(pairs))

\* Stable sort on the second component, descending: equal counts keep their
\* order in s.
sort_values_desc(s) ==
    LET n == Len(s)
        pos == [i \in 1..n |->
                   1 + Cardinality({j \in 1..n : s[j][2] > s[i][2]})
                     + Cardinality({j \in 1..(i - 1) : s[j][2] = s[i][2]})]
    IN [k \in 1..n |-> s[CHOOSE i \in 1..n : pos[i] = k]]

\* Lexicographic order of two tuples of integers of the same length.
RECURSIVE TupleLess(_, _)
TupleLess(a, b) ==
    IF a = <<>> \/ b = <<>> THEN FALSE
    ELSE IF a[1] # b[1] THEN a[1] < b[1]
    ELSE TupleLess(Tail(a), Tail(b))

\* Sort on the first component (distinct tuples), ascending.
sort_index(s) ==
    LET n == Len(s)
        pos == [i \in 1..n |->
                   1 + Cardinality({j \in 1..n : TupleLess(s[j][1], s[i][1])})]
    IN [k \in 1..n |-> s[CHOOSE i \in 1..n : pos[i] = k]]

\* Sort on the first component (distinct integers), ascending.
sort_index_num(s) ==
    LET n == Len(s)
        pos == [i \in 1..n |-> 1 + Cardinality({j \in 1..n : s[j][1] < s[i][1]})]
    IN [k \in 1..n |-> s[CHOOSE i \in 1..n : pos[i] = k]]

----------------------------------------------------------------------------
(* load_data: pd.to_datetime(errors='coerce') and the derived columns *)

IsLeap(y) == (y % 4 = 0 /\ y % 100 # 0) \/ y % 400 = 0

DaysIn(y, m) ==
    IF m = 2 THEN (IF IsLeap(y) THEN 29 ELSE 28)
    ELSE IF m \in {4, 6, 9, 11} THEN 30 ELSE 31

\* Whether the numbers written in a text cell are a calendar date y-m-d.
IsDate(v) ==
    /\ Len(v) = 3
    /\ v[1] \in 1678..2261
    /\ v[2] \in 1..12
    /\ v[3] \in 1..DaysIn(v[1], v[2])

\* A mutant of to_datetime: text that names no calendar date is kept as it is.
to_datetime_unchecked(cell) ==
    IF cell.kind = "empty" THEN NaT ELSE cell.val

\* pd.to_datetime(..., errors='coerce') on one cell.
to_datetime(cell) ==
    CASE cell.kind = "datetime" -> cell.val
      [] cell.kind = "text" -> IF IsDate(cell.val) THEN cell.val ELSE NaT
      [] OTHER -> NaT

dt_year(ts) == IF ts = NaT THEN NaNf ELSE ts[1]

dt_month(ts) == IF ts = NaT THEN NaNf ELSE ts[2]

to_period(ts) == IF ts = NaT THEN NaT ELSE <<ts[1], ts[2]>>

dt_date(ts) == ts

\* df[name] = ...: a new column goes last, an existing one keeps its place.
AddColumn(columns, name) ==
    IF name \in Range(columns) THEN columns ELSE Append(columns, name)

\* Lines 41-47 on one row.
Normalize(row) ==
    LET ts == to_datetime(row[ColEntrada])
    IN (ColEntrada :> ts) @@ (ColData :> to_datetime(row[ColData]))
       @@ ("ANO" :> dt_year(ts)) @@ ("MES" :> dt_month(ts))
       @@ ("MES_ANO" :> to_period(ts)) @@ row

\* df['DATA E HORA DE ENTRADA'] and df['DATA DE ENTRADA'] raise KeyError on a
\* sheet without the column.
HasDateColumns(f) ==
    ColEntrada \in Range(f.columns) /\ ColData \in Range(f.columns)

\* load_data: the frame, and the message of the except branch.
load_data(f) ==
    IF ~HasDateColumns(f)
    THEN [frame |-> EmptyFrame, error |-> {MsgLoad}]
    ELSE [frame |->
            [columns |-> AddColumn(AddColumn(AddColumn(f.columns,
                            "ANO"), "MES"), "MES_ANO"),
             rows |-> [i \in 1..Len(f.rows) |-> Normalize(f.rows[i])]],
          error |-> {}]

\* A mutant of IsEmptyFrame: the test after load_data never stops the script.
IsEmptyFrameNever(d) == FALSE

\* df.empty
IsEmptyFrame(d) == Len(d.rows) = 0 \/ Len(d.columns) = 0

----------------------------------------------------------------------------
(* Sidebar: options of the widgets, and the filters (lines 65-112) *)

NullOf(c) ==
    CASE c \in {ColEntrada, ColData, "MES_ANO"} -> NaT
      [] c \in {"ANO", "MES"} -> NaNf
      [] OTHER -> NaN

isnull(row, c) == row[c] = NullOf(c)

\* df[c].dropna() as a sequence of values
dropna(rows, c) ==
    LET kept == SelectSeq(rows, LAMBDA r : ~isnull(r, c))
    IN [i \in 1..Len(kept) |-> kept[i][c]]

anos_disponiveis(d) == Range(dropna(d.rows, "ANO"))

tipos_disponiveis(d) == Range(dropna(d.rows, "TIPO"))

especies_disponiveis(d) == Range(dropna(d.rows, "ESPÉCIE"))

assuntos_disponiveis(d) == Range(dropna(d.rows, "ASSUNTO"))

\* A mutant of DefaultSelection: the multiselect starts with nothing selected.
DefaultSelectionNone(options) == {}

\* default=list(options) of st.sidebar.multiselect
DefaultSelection(options) == options

\* df['ANO'] == ano_selecionado on one value: NaN equals nothing.
YearEq(ano, selected) == ano # NaNf /\ ano = selected

\* A mutant of isin: a missing value passes the membership test.
isin_nan(v, selected) == v = NaN \/ v \in selected

\* Series.isin(list) on one value; the list holds no missing value, because
\* the options of the multiselects are dropna().unique().
isin(v, selected) == v \in selected

\* A mutant of FilterBy: the emptiness test of the selection is dropped.
FilterByAlways(rows, c, selected) ==
    SelectSeq(rows, LAMBDA r : isin(r[c], selected))

\* if selected: rows = rows[rows[c].isin(selected)]
FilterBy(rows, c, selected) ==
    IF selected # {}
    THEN SelectSeq(rows, LAMBDA r : isin(r[c], selected))
    ELSE rows

FilterYear(rows, ano) ==
    IF ano # Todos
    THEN SelectSeq(rows, LAMBDA r : YearEq(r["ANO"], ano))
    ELSE rows

\* Lines 100-112.
ApplyFilters(d, ano, tipo, especie, assunto) ==
    FilterBy(FilterBy(FilterBy(FilterYear(d.rows, ano),
        "TIPO", tipo), "ESPÉCIE", especie), "ASSUNTO", assunto)


----------------------------------------------------------------------------
(* Metrics (lines 119-133) *)

\* A mutant of CountPendentes: every record with a status counts as pending.
CountPendentesAnyStatus(rows) ==
    Len(SelectSeq(rows, LAMBDA r : ~isnull(r, "STATUS")))

\* len(df_filtrado[df_filtrado['STATUS'] == 'Pendente'])
CountPendentes(rows) ==
    Len(SelectSeq(rows, LAMBDA r : r["STATUS"] = "Pendente"))

\* len(df_filtrado[df_filtrado['DECISAO'].notna()])
CountComDecisao(rows) ==
    Len(SelectSeq(rows, LAMBDA r : ~isnull(r, "DECISAO")))

\* (com_decisao / total * 100) if total > 0 else 0, as an exact fraction
TaxaConclusao(com_decisao, total) ==
    IF total > 0 THEN <<com_decisao * 100, total>> ELSE <<0, 1>>

----------------------------------------------------------------------------
(* Frequency counts and time series (lines 143-247) *)

\* A mutant of value_counts: missing values are counted like any other
\* (dropna=False).
value_counts_keepna(rows, c) ==
    LET vals == [i \in 1..Len(rows) |-> rows[i][c]]
        keys == Uniq(vals)
    IN sort_values_desc([i \in 1..Len(keys) |-> <<keys[i], CountOf(vals, keys[i])>>])

\* Series.value_counts(): <<value, count>> of the values that are not missing,
\* most frequent first, equal counts in order of first appearance.
value_counts(rows, c) ==
    LET vals == dropna(rows, c)
        keys == Uniq(vals)
    IN sort_values_desc([i \in 1..Len(keys) |-> <<keys[i], CountOf(vals, keys[i])>>])

head(s, n) == SubSeq(s, 1, Min(n, Len(s)))

\* groupby(df['DATA E HORA DE ENTRADA'].dt.date).size(): one group per date
\* that occurs, ascending; rows without a date are in no group.
GroupByDate(rows) ==
    LET vals == dropna(rows, ColEntrada)
        keys == Uniq([i \in 1..Len(vals) |-> dt_date(vals[i])])
    IN sort_index([i \in 1..Len(keys) |-> <<keys[i], CountOf(vals, keys[i])>>])

----------------------------------------------------------------------------
(* Missing-value report (lines 278-285) *)

\* df_filtrado.isnull().sum(): <<column, count>> in column order
isnull_sum(columns, rows) ==
    [i \in 1..Len(columns) |->
        <<columns[i], Len(SelectSeq(rows, LAMBDA r : isnull(r, columns[i])))>>]

\* A mutant of SortMissing: the report is sorted ascending.
SortMissingAscending(counts) ==
    LET n == Len(counts)
        desc == sort_values_desc(counts)
    IN [k \in 1..n |-> desc[n + 1 - k]]

\* .sort_values(ascending=False); columns with equal counts keep the order of
\* the frame's columns (what the sort does with equal keys is not part of its
\* contract; this is what it does on a frame of few columns).
SortMissing(counts) == sort_values_desc(counts)

\* round(num / den, 0) to the nearest integer, halves to even; den > 0
RoundHalfEven(num, den) ==
    LET q == num \div den
        r == num % den
    IN IF 2 * r < den THEN q
       ELSE IF 2 * r > den THEN q + 1
       ELSE IF q % 2 = 0 THEN q ELSE q + 1

\* (count / total * 100).round(2) in hundredths; 0 / 0 is NaN in pandas
Percent(count, total) ==
    IF total = 0 THEN NaNf ELSE RoundHalfEven(count * 10000, total)

MissingPercent(sorted, total) ==
    [i \in 1..Len(sorted) |-> <<sorted[i][1], Percent(sorted[i][2], total)>>]


----------------------------------------------------------------------------
(* One run of the script *)

\* The run ends at an st.stop(): nothing below it is computed.
Stopped(up, where, msgs, d) ==
    /\ uploaded_file' = up
    /\ pc' = where
    /\ shown' = msgs
    /\ df' = d
    /\ ano_selecionado' = Todos
    /\ tipo_selecionado' = {}
    /\ especie_selecionada' = {}
    /\ assunto_selecionado' = {}
    /\ df_filtrado' = <<>>
    /\ total_processos' = 0
    /\ processos_pendentes' = 0
    /\ processos_com_decisao' = 0
    /\ taxa_conclusao' = <<0, 1>>
    /\ tipo_counts' = <<>>
    /\ especie_counts' = <<>>
    /\ assunto_counts' = <<>>
    /\ decisao_counts' = <<>>
    /\ df_temporal' = <<>>
    /\ mes_ano_counts' = <<>>
    /\ ano_counts' = <<>>
    /\ missing_data' = <<>>
    /\ missing_percent' = <<>>

\* Lines 99-299 with the widgets at ano, tipo, especie, assunto.
Render(up, d, ano, tipo, especie, assunto) ==
    LET view == ApplyFilters(d, ano, tipo, especie, assunto)
        total == Len(view)
        com_decisao == CountComDecisao(view)
        hasTipo == dropna(view, "TIPO") # <<>>
        hasEspecie == dropna(view, "ESPÉCIE") # <<>>
        hasAssunto == dropna(view, "ASSUNTO") # <<>>
        hasDecisao == dropna(view, "DECISAO") # <<>>
        hasEntrada == dropna(view, ColEntrada) # <<>>
        sorted == SortMissing(isnull_sum(d.columns, view))
    IN /\ uploaded_file' = up
       /\ pc' = "done"
       /\ df' = d
       /\ ano_selecionado' = ano
       /\ tipo_selecionado' = tipo
       /\ especie_selecionada' = especie
       /\ assunto_selecionado' = assunto
       /\ df_filtrado' = view
       /\ total_processos' = total
       /\ processos_pendentes' = CountPendentes(view)
       /\ processos_com_decisao' = com_decisao
       /\ taxa_conclusao' = TaxaConclusao(com_decisao, total)
       /\ tipo_counts' = IF hasTipo THEN value_counts(view, "TIPO") ELSE <<>>
       /\ especie_counts' =
            IF hasEspecie THEN head(value_counts(view, "ESPÉCIE"), TopN) ELSE <<>>
       /\ assunto_counts' =
            IF hasAssunto THEN head(value_counts(view, "ASSUNTO"), TopN) ELSE <<>>
       /\ decisao_counts' = IF hasDecisao THEN value_counts(view, "DECISAO") ELSE <<>>
       /\ df_temporal' = IF hasEntrada THEN GroupByDate(view) ELSE <<>>
       /\ mes_ano_counts' =
            IF hasEntrada /\ dropna(view, "MES_ANO") # <<>>
            THEN sort_index(value_counts(view, "MES_ANO")) ELSE <<>>
       /\ ano_counts' =
            IF hasEntrada /\ dropna(view, "ANO") # <<>>
            THEN sort_index_num(value_counts(view, "ANO")) ELSE <<>>
       /\ missing_data' = sorted
       /\ missing_percent' = MissingPercent(sorted, total)
       /\ shown' = (IF hasTipo THEN {} ELSE {MsgTipo})
                   \cup (IF hasEspecie THEN {} ELSE {MsgEspecie})
                   \cup (IF hasAssunto THEN {} ELSE {MsgAssunto})
                   \cup (IF hasDecisao THEN {} ELSE {MsgDecisao})
                   \cup (IF hasEntrada THEN {} ELSE {MsgTemporal})

----------------------------------------------------------------------------
(* Actions *)

\* The user uploads the workbook: first run with a file, widgets at their
\* defaults (lines 23-112 and on).
Upload ==
    /\ uploaded_file = <<>>
    /\ LET loaded == load_data(file)
           d == loaded.frame
       IN IF IsEmptyFrame(d)
          THEN Stopped(<<file>>, "load_error", loaded.error \cup {MsgEmpty}, d)
          ELSE Render(<<file>>, d, Todos,
                      DefaultSelection(tipos_disponiveis(d)),
                      DefaultSelection(especies_disponiveis(d)),
                      DefaultSelection(assuntos_disponiveis(d)))
    /\ UNCHANGED file

\* The user removes the upload: the run stops at line 28.
RemoveFile ==
    /\ uploaded_file # <<>>
    /\ Stopped(<<>>, "waiting", {MsgWaiting}, EmptyFrame)
    /\ UNCHANGED file

\* The user picks a year (or 'Todos'); load_data is served from the cache.
SelectAno ==
    /\ pc = "done"
    /\ \E ano \in ({Todos} \cup anos_disponiveis(df)) \ {ano_selecionado} :
          Render(uploaded_file, df, ano, tipo_selecionado, especie_selecionada,
                 assunto_selecionado)
    /\ UNCHANGED file

SelectTipo ==
    /\ pc = "done"
    /\ \E tipo \in (SUBSET tipos_disponiveis(df)) \ {tipo_selecionado} :
          Render(uploaded_file, df, ano_selecionado, tipo, especie_selecionada,
                 assunto_selecionado)
    /\ UNCHANGED file

SelectEspecie ==
    /\ pc = "done"
    /\ \E especie \in (SUBSET especies_disponiveis(df)) \ {especie_selecionada} :
          Render(uploaded_file, df, ano_selecionado, tipo_selecionado, especie,
                 assunto_selecionado)
    /\ UNCHANGED file

SelectAssunto ==
    /\ pc = "done"
    /\ \E assunto \in (SUBSET assuntos_disponiveis(df)) \ {assunto_selecionado} :
          Render(uploaded_file, df, ano_selecionado, tipo_selecionado,
                 especie_selecionada, assunto)
    /\ UNCHANGED file

Next ==
    \/ Upload
    \/ RemoveFile
    \/ SelectAno
    \/ SelectTipo
    \/ SelectEspecie
    \/ SelectAssunto

----------------------------------------------------------------------------
(* Workbooks *)

Empty == [kind |-> "empty", val |-> <<>>]

Dt(y, m, d) == [kind |-> "datetime", val |-> <<y, m, d>>]

Txt(v) == [kind |-> "text", val |-> v]

SheetColumns ==
    <<ColEntrada, ColData, "TIPO", "ESPÉCIE", "ASSUNTO", "DECISAO", "STATUS">>

SheetColumnsByName ==
    <<"ASSUNTO", ColData, ColEntrada, "DECISAO", "ESPÉCIE", "STATUS", "TIPO">>

Row(entrada, data, tipo, especie, assunto, decisao, status) ==
    (ColEntrada :> entrada) @@ (ColData :> data) @@ ("TIPO" :> tipo)
    @@ ("ESPÉCIE" :> especie) @@ ("ASSUNTO" :> assunto)
    @@ ("DECISAO" :> decisao) @@ ("STATUS" :> status)

SeqsUpTo(S, n) == UNION {[1..k -> S] : k \in 0..n}

\* A workbook with the given columns: each row keeps only those.
Sheet(columns, rows) ==
    [columns |-> columns,
     rows |-> [i \in 1..Len(rows) |-> [c \in Range(columns) |-> rows[i][c]]]]

Sheets(columnOrders, rowSet) ==
    {Sheet(c, r) : c \in columnOrders, r \in SeqsUpTo(rowSet, MaxRows)}

FilterRows ==
    {Row(Dt(2023, 1, 15), Empty, "PAD", "Ofício", "Assédio", NaN, "Pendente"),
     Row(Dt(2024, 3, 2), Empty, "PAD", "Ofício", "Assédio", NaN, "Pendente"),
     Row(Dt(2024, 3, 2), Empty, "Sindicância", "Ofício", "Assédio", NaN, "Pendente"),
     Row(Empty, Empty, "PAD", "Ofício", "Assédio", NaN, "Pendente"),
     Row(Dt(2023, 1, 15), Empty, NaN, "Ofício", "Assédio", NaN, "Pendente"),
     Row(Dt(2023, 1, 15), Empty, "PAD", NaN, "Assédio", NaN, "Pendente"),
     Row(Dt(2023, 1, 15), Empty, "PAD", "Ofício", NaN, NaN, "Pendente"),
     Row(Empty, Empty, NaN, NaN, NaN, NaN, "Pendente")}

MetricsRows ==
    {Row(Dt(2023, 1, 15), Empty, t, "Ofício", "Assédio", d, s) :
        t \in {NaN, "PAD"},
        d \in {NaN, "Absolvição"},
        s \in {"Pendente", "Concluído"}}
    \cup
    {Row(Dt(2023, 1, 15), Empty, NaN, "Ofício", "Assédio", NaN, NaN),
     Row(Dt(2023, 1, 15), Empty, "PAD", NaN, "Assédio", "Absolvição", "Pendente")}

LoadRows ==
    {Row(e, d, "PAD", "Ofício", "Assédio", NaN, "Pendente") :
        e \in {Empty, Dt(2023, 1, 15), Txt(<<2023, 2, 1>>), Txt(<<>>),
               Txt(<<2024, 13, 1>>)},
        d \in {Empty, Txt(<<2023, 2, 30>>)}}

QualityRows ==
    {Row(e, Empty, t, s, "Assédio", NaN, "Pendente") :
        e \in {Empty, Dt(2023, 1, 15)},
        t \in {NaN, "PAD"},
        s \in {NaN, "Ofício"}}

WithoutColumn(columns, c) == SelectSeq(columns, LAMBDA x : x # c)

FilterFiles == Sheets({SheetColumns}, FilterRows)

MetricsFiles == Sheets({SheetColumns}, MetricsRows)

LoadFiles ==
    Sheets({SheetColumns, WithoutColumn(SheetColumns, ColEntrada),
            WithoutColumn(SheetColumns, ColData)}, LoadRows)

QualityFiles == Sheets({SheetColumns, SheetColumnsByName}, QualityRows)

----------------------------------------------------------------------------
(* Specifications *)

\* Nothing uploaded yet: the script has stopped at line 28.
InitWith(files) ==
    /\ file \in files
    /\ uploaded_file = <<>>
    /\ pc = "waiting"
    /\ shown = {MsgWaiting}
    /\ df = EmptyFrame
    /\ ano_selecionado = Todos
    /\ tipo_selecionado = {}
    /\ especie_selecionada = {}
    /\ assunto_selecionado = {}
    /\ df_filtrado = <<>>
    /\ total_processos = 0
    /\ processos_pendentes = 0
    /\ processos_com_decisao = 0
    /\ taxa_conclusao = <<0, 1>>
    /\ tipo_counts = <<>>
    /\ especie_counts = <<>>
    /\ assunto_counts = <<>>
    /\ decisao_counts = <<>>
    /\ df_temporal = <<>>
    /\ mes_ano_counts = <<>>
    /\ ano_counts = <<>>
    /\ missing_data = <<>>
    /\ missing_percent = <<>>

InitFilter == InitWith(FilterFiles)

InitMetrics == InitWith(MetricsFiles)

InitLoad == InitWith(LoadFiles)

InitQuality == InitWith(QualityFiles)

Init == InitWith(FilterFiles \cup MetricsFiles \cup LoadFiles \cup QualityFiles)

SpecFilter == InitFilter /\ [][Next]_vars

SpecMetrics == InitMetrics /\ [][Next]_vars

SpecLoad == InitLoad /\ [][Next]_vars

SpecQuality == InitQuality /\ [][Next]_vars

Spec == Init /\ [][Next]_vars


----------------------------------------------------------------------------
(* Properties *)

\* The record matches the widgets' FilterSpec: the year predicate (or none)
\* and, for each categorical attribute, its inclusion set (or an empty one).
MatchesSpec(r) ==
    /\ ano_selecionado = Todos \/ (r["ANO"] # NaNf /\ r["ANO"] = ano_selecionado)
    /\ tipo_selecionado = {} \/ r["TIPO"] \in tipo_selecionado
    /\ especie_selecionada = {} \/ r["ESPÉCIE"] \in especie_selecionada
    /\ assunto_selecionado = {} \/ r["ASSUNTO"] \in assunto_selecionado

NoRestriction ==
    /\ ano_selecionado = Todos
    /\ tipo_selecionado = {}
    /\ especie_selecionada = {}
    /\ assunto_selecionado = {}

\* C1: the filtered view is the subsequence of the dataset's records, in their
\* original order, that match the year predicate (or no year is set) and whose
\* TIPO, ESPÉCIE and ASSUNTO each lie in the attribute's inclusion set (or the
\* set is empty); with no year and three empty sets it is the whole dataset.
C1_ViewIsConjunctiveFilter ==
    pc = "done" =>
        /\ df_filtrado = SelectSeq(df.rows, MatchesSpec)
        /\ NoRestriction => df_filtrado = df.rows

\* A view filtered on the year and on a categorical attribute keeps some
\* records and drops others; another run has no restriction at all.
C1_Witness ==
    /\ pc = "done"
    /\ ano_selecionado # Todos
    /\ tipo_selecionado # {}
    /\ df_filtrado # <<>>
    /\ Len(df_filtrado) < Len(df.rows)

\* C2: a record with a null TIPO, ESPÉCIE or ASSUNTO is never in the view
\* while that attribute's inclusion set is non-empty, and a record with a null
\* year is never in the view while a year is selected.
C2_NullsNeverMatch ==
    pc = "done" =>
        \A i \in 1..Len(df_filtrado) :
            LET r == df_filtrado[i]
            IN /\ tipo_selecionado # {} => r["TIPO"] # NaN
               /\ especie_selecionada # {} => r["ESPÉCIE"] # NaN
               /\ assunto_selecionado # {} => r["ASSUNTO"] # NaN
               /\ ano_selecionado # Todos => r["ANO"] # NaNf

\* The dataset holds a record without TIPO and one without year, both
\* predicates are active, and the view still holds a record.
C2_Witness ==
    /\ pc = "done"
    /\ tipo_selecionado # {}
    /\ ano_selecionado # Todos
    /\ \E i \in 1..Len(df.rows) : df.rows[i]["TIPO"] = NaN
    /\ \E i \in 1..Len(df.rows) : df.rows[i]["ANO"] = NaNf
    /\ df_filtrado # <<>>

NonNull(d, c) == {d.rows[i][c] : i \in 1..Len(d.rows)} \ {NaN}

\* The records whose TIPO, ESPÉCIE and ASSUNTO are each non-null, a column
\* without any non-null value placing no restriction.
NonNullRecords(d) ==
    SelectSeq(d.rows, LAMBDA r :
        \A c \in {"TIPO", "ESPÉCIE", "ASSUNTO"} :
            NonNull(d, c) # {} => r[c] # NaN)

\* C10: right after the upload (year 'Todos', each multiselect at all the
\* distinct non-null values of its column) the view is exactly the records
\* whose TIPO, ESPÉCIE and ASSUNTO are non-null, a column with no non-null
\* value placing no restriction.
C10_InitialViewDropsNulls ==
    [][(uploaded_file = <<>> /\ pc' = "done") =>
          /\ ano_selecionado' = Todos
          /\ tipo_selecionado' = NonNull(df', "TIPO")
          /\ especie_selecionada' = NonNull(df', "ESPÉCIE")
          /\ assunto_selecionado' = NonNull(df', "ASSUNTO")
          /\ df_filtrado' = NonNullRecords(df')]_vars

\* The widgets are at their defaults, ESPÉCIE has no value at all (no
\* restriction) and the view is neither empty nor the whole dataset.
C10_Witness ==
    /\ pc = "done"
    /\ ano_selecionado = Todos
    /\ tipo_selecionado = NonNull(df, "TIPO")
    /\ especie_selecionada = NonNull(df, "ESPÉCIE")
    /\ assunto_selecionado = NonNull(df, "ASSUNTO")
    /\ tipo_selecionado # {}
    /\ especie_selecionada = {}
    /\ df_filtrado # <<>>
    /\ Len(df_filtrado) < Len(df.rows)

CountWhere(s, c, v) == Cardinality({i \in 1..Len(s) : s[i][c] = v})

MetricCounts ==
    /\ total_processos = Len(df_filtrado)
    /\ processos_com_decisao
         = Len(df_filtrado) - CountWhere(df_filtrado, "DECISAO", NaN)
    /\ processos_pendentes = CountWhere(df_filtrado, "STATUS", "Pendente")

\* C3 as stated: total, withDecision and pendingCount as counted, and the
\* completion ratio is withDecision / total, a fraction between 0 and 1, and
\* 0 for an empty view.
C3_RatioIsFraction ==
    pc = "done" =>
        /\ MetricCounts
        /\ total_processos > 0 =>
              /\ taxa_conclusao[1] * total_processos
                   = processos_com_decisao * taxa_conclusao[2]
              /\ 0 <= taxa_conclusao[1] /\ taxa_conclusao[1] <= taxa_conclusao[2]
        /\ total_processos = 0 => taxa_conclusao[1] = 0 /\ taxa_conclusao[2] # 0

\* C3 (amended): total, withDecision and pendingCount as counted, and the
\* completion rate is withDecision / total * 100, a percentage between 0 and
\* 100, and exactly 0 (no division) for an empty view.
C3_RateIsPercentage ==
    pc = "done" =>
        /\ MetricCounts
        /\ total_processos > 0 =>
              /\ taxa_conclusao[1] * total_processos
                   = processos_com_decisao * 100 * taxa_conclusao[2]
              /\ 0 <= taxa_conclusao[1]
              /\ taxa_conclusao[1] <= 100 * taxa_conclusao[2]
        /\ total_processos = 0 => taxa_conclusao[1] = 0 /\ taxa_conclusao[2] # 0

\* A view where some records have a decision and some do not, and some are
\* pending and some have another status.
C3_Witness ==
    /\ pc = "done"
    /\ 0 < processos_com_decisao
    /\ processos_com_decisao < total_processos
    /\ 0 < processos_pendentes
    /\ processos_pendentes < total_processos - CountWhere(df_filtrado, "STATUS", NaN)

Abs(x) == IF x < 0 THEN 0 - x ELSE x

\* p hundredths is num / den rounded to two places.
IsRounded(p, num, den) == 2 * Abs(p * den - num * 10000) <= den

\* C4: each attribute's percentage is missingCount / max(1, len(view)) * 100
\* (to two places), so an empty view reports 0% for every attribute.
C4_PercentWithFloor ==
    pc = "done" =>
        \A i \in 1..Len(missing_percent) :
            /\ missing_percent[i][1] = missing_data[i][1]
            /\ IsRounded(missing_percent[i][2], missing_data[i][2],
                         Max(1, Len(df_filtrado)))

\* C5: with the entry-timestamp column absent the load ends in an error shown
\* to the user, no frame is produced and nothing after the load runs.
C5_MissingColumnStopsTheRun ==
    (uploaded_file # <<>> /\ ColEntrada \notin Range(uploaded_file[1].columns)) =>
        /\ pc = "load_error"
        /\ {MsgLoad, MsgEmpty} \subseteq shown
        /\ df = EmptyFrame
        /\ df_filtrado = <<>>
        /\ total_processos = 0
        /\ tipo_counts = <<>> /\ decisao_counts = <<>>
        /\ df_temporal = <<>>
        /\ missing_data = <<>> /\ missing_percent = <<>>
        /\ shown \cap {MsgTipo, MsgEspecie, MsgAssunto, MsgDecisao, MsgTemporal} = {}

\* A sheet with rows but without the entry-timestamp column was uploaded.
C5_Witness ==
    /\ uploaded_file # <<>>
    /\ ColEntrada \notin Range(uploaded_file[1].columns)
    /\ Len(uploaded_file[1].rows) > 0

Parses(cell) == cell.kind = "datetime" \/ (cell.kind = "text" /\ IsDate(cell.val))

\* C7: every input row is a record of the frame, with its other attributes
\* unchanged; a missing or unparseable entry timestamp leaves timestamp, ANO,
\* MES and MES_ANO null, a parsed one gives its year, its month (1..12) and
\* its year-month; no malformed value makes the load fail.
C7_DerivedFollowTimestamp ==
    (uploaded_file # <<>> /\ HasDateColumns(file) /\ Len(file.rows) > 0) =>
        /\ pc = "done"
        /\ MsgLoad \notin shown
        /\ Len(df.rows) = Len(file.rows)
        /\ \A i \in 1..Len(file.rows) :
              LET raw == file.rows[i]
                  r == df.rows[i]
              IN /\ \A c \in {"TIPO", "ESPÉCIE", "ASSUNTO", "DECISAO", "STATUS"} :
                       r[c] = raw[c]
                 /\ ~Parses(raw[ColEntrada]) =>
                       /\ r[ColEntrada] = NaT
                       /\ r["ANO"] = NaNf
                       /\ r["MES"] = NaNf
                       /\ r["MES_ANO"] = NaT
                 /\ Parses(raw[ColEntrada]) =>
                       /\ r[ColEntrada] = raw[ColEntrada].val
                       /\ r["ANO"] = raw[ColEntrada].val[1]
                       /\ r["MES"] = raw[ColEntrada].val[2]
                       /\ r["MES"] \in 1..12
                       /\ r["MES_ANO"] = <<r["ANO"], r["MES"]>>

\* A loaded sheet with a text timestamp that parses and one, not empty, that
\* names no calendar date.
C7_Witness ==
    /\ pc = "done"
    /\ \E i \in 1..Len(file.rows) :
          LET c == file.rows[i][ColEntrada]
          IN c.kind = "text" /\ c.val # <<>> /\ ~IsDate(c.val)
    /\ \E i \in 1..Len(file.rows) :
          LET c == file.rows[i][ColEntrada]
          IN c.kind = "text" /\ IsDate(c.val)

CountsWithin(counts, c) ==
    /\ SumCounts(counts) <= Len(df_filtrado)
    /\ SumCounts(counts) = Len(df_filtrado) <=> CountWhere(df_filtrado, c, NaN) = 0

\* C8: the counts of the frequency count of an attribute (TIPO, DECISAO: the
\* two that are not truncated) sum to at most the number of records of the
\* view, and to exactly that number iff no record has a null for it.
C8_CountsSumToNonNull ==
    pc = "done" =>
        /\ CountsWithin(tipo_counts, "TIPO")
        /\ CountsWithin(decisao_counts, "DECISAO")

\* A view where DECISAO is null in some records and not in others.
C8_Witness ==
    /\ pc = "done"
    /\ 0 < SumCounts(decisao_counts)
    /\ SumCounts(decisao_counts) < Len(df_filtrado)
    /\ SumCounts(tipo_counts) = Len(df_filtrado)

NameRank(c) ==
    CASE c = "ANO" -> 1
      [] c = "ASSUNTO" -> 2
      [] c = "DATA DE ENTRADA" -> 3
      [] c = "DATA E HORA DE ENTRADA" -> 4
      [] c = "DECISAO" -> 5
      [] c = "ESPÉCIE" -> 6
      [] c = "MES" -> 7
      [] c = "MES_ANO" -> 8
      [] c = "STATUS" -> 9
      [] c = "TIPO" -> 10

EveryColumnOnce ==
    /\ Len(missing_data) = Len(df.columns)
    /\ {missing_data[i][1] : i \in 1..Len(missing_data)} = Range(df.columns)

DescendingCounts ==
    \A i \in 1..(Len(missing_data) - 1) : missing_data[i][2] >= missing_data[i + 1][2]

\* C9 as stated: every attribute once, by descending missing count, equal
\* counts in attribute-name order.
C9_TiesByName ==
    pc = "done" =>
        /\ EveryColumnOnce
        /\ DescendingCounts
        /\ \A i \in 1..(Len(missing_data) - 1) :
              missing_data[i][2] = missing_data[i + 1][2] =>
                  NameRank(missing_data[i][1]) < NameRank(missing_data[i + 1][1])

\* C9 (amended): the report lists every attribute of the frame exactly once,
\* by descending missing count; attributes with equal counts are in the order
\* the sort leaves them, which is not attribute-name order.
C9_DescendingByCount ==
    pc = "done" =>
        /\ EveryColumnOnce
        /\ DescendingCounts

\* A report with attributes of different counts and attributes of equal
\* counts.
C9_Witness ==
    /\ pc = "done"
    /\ \E i, j \in 1..Len(missing_data) :
          i < j /\ missing_data[i][2] > missing_data[j][2] /\ missing_data[j][2] > 0
    /\ \E i \in 1..(Len(missing_data) - 1) :
          /\ missing_data[i][2] = missing_data[i + 1][2]
          /\ NameRank(missing_data[i][1]) > NameRank(missing_data[i + 1][1])

\* C6: an empty dataset, or a FilterSpec that excludes every record, gives an
\* empty view without error, and metrics, frequency counts, time series and
\* quality report of that view are empty or zero.
C6_EmptyViewIsHandled ==
    /\ (uploaded_file # <<>> /\ HasDateColumns(file) /\ Len(file.rows) = 0) =>
          pc = "done" /\ shown \cap {MsgLoad, MsgEmpty} = {}
    /\ (pc = "done" /\ df_filtrado = <<>>) =>
          /\ total_processos = 0
          /\ processos_pendentes = 0
          /\ processos_com_decisao = 0
          /\ taxa_conclusao[1] = 0
          /\ tipo_counts = <<>> /\ especie_counts = <<>>
          /\ assunto_counts = <<>> /\ decisao_counts = <<>>
          /\ df_temporal = <<>> /\ mes_ano_counts = <<>> /\ ano_counts = <<>>
          /\ \A i \in 1..Len(missing_data) : missing_data[i][2] = 0
          /\ \A i \in 1..Len(missing_percent) : missing_percent[i][2] = 0

====
